---- MODULE Spec2Model ----
(***************************************************************************)
(* Model of the R1CS core data model (r1cs-core/src/lib.rs: Index,         *)
(* Variable, LinearCombination) and of the SNARK trait family              *)
(* (snark/src/lib.rs).                                                     *)
(***************************************************************************)
EXTENDS Integers, Sequences, FiniteSets, TLC

(***************************************************************************)
(* Bounds of the model.                                                    *)
(***************************************************************************)
MaxIdx == 1

MaxWrites == 2

MaxInserts == 3

(* The field F is modelled by the integers modulo FieldP.                  *)
FieldP == 3

MaxCircuit == 2

MaxDraws == 2

MaxRng == 4

(* usize::SERIALIZED_SIZE of the serialization library: a usize is written *)
(* as a u64, eight little-endian bytes.                                    *)
USIZE_SERIALIZED_SIZE == 8

(* The usize values the model draws indices from: the small ones and      *)
(* values at the byte boundaries of the little-endian encoding.           *)
IdxValues == (0..MaxIdx) \cup {32, 255, 256, 2147483647}

(***************************************************************************)
(* enum Index { Input(usize), Aux(usize) }                                 *)
(***************************************************************************)
Input(n) == [tag |-> "Input", inner |-> n]

Aux(n) == [tag |-> "Aux", inner |-> n]

Index == {Input(n) : n \in IdxValues} \cup {Aux(n) : n \in IdxValues}

(* #[derive(PartialEq, Eq)] on Index: same variant and equal payloads.     *)
IndexEq(a, b) ==
    CASE a.tag = "Input" /\ b.tag = "Input" -> a.inner = b.inner
      [] a.tag = "Aux" /\ b.tag = "Aux" -> a.inner = b.inner
      [] OTHER -> FALSE

(***************************************************************************)
(* The primitive encodings Index::serialize and Index::deserialize call.   *)
(***************************************************************************)
RECURSIVE LEBytes(_, _)
LEBytes(n, k) ==
    IF k = 0 THEN <<>> ELSE <<n % 256>> \o LEBytes(n \div 256, k - 1)

RECURSIVE LEValue(_)
LEValue(bytes) ==
    IF bytes = <<>> THEN 0 ELSE Head(bytes) + 256 * LEValue(Tail(bytes))

(* true.serialize(writer) / false.serialize(writer): one byte, 1 or 0.     *)
BoolSerialize(b, writer) == Append(writer, IF b THEN 1 ELSE 0)

(* inner.serialize(writer): the usize as a little-endian u64.              *)
UsizeSerialize(n, writer) == writer \o LEBytes(n, USIZE_SERIALIZED_SIZE)

NoIndex == [tag |-> "None", inner |-> 0]

(* bool::deserialize(reader): one byte; 0 is false, 1 is true, any other   *)
(* byte is invalid data, and an empty reader is an I/O error.              *)
BoolDeserialize(reader) ==
    IF Len(reader) < 1
    THEN [ok |-> FALSE, val |-> FALSE, err |-> "IoError", rest |-> <<>>]
    ELSE IF Head(reader) \notin {0, 1}
    THEN [ok |-> FALSE, val |-> FALSE, err |-> "InvalidData", rest |-> <<>>]
    ELSE [ok |-> TRUE, val |-> (Head(reader) = 1), err |-> "", rest |-> Tail(reader)]

(* usize::deserialize(reader): read_exact of eight bytes, little-endian.   *)
UsizeDeserialize(reader) ==
    IF Len(reader) < USIZE_SERIALIZED_SIZE
    THEN [ok |-> FALSE, val |-> 0, err |-> "IoError", rest |-> <<>>]
    ELSE [ok |-> TRUE,
          val |-> LEValue(SubSeq(reader, 1, USIZE_SERIALIZED_SIZE)),
          err |-> "",
          rest |-> SubSeq(reader, USIZE_SERIALIZED_SIZE + 1, Len(reader))]

(***************************************************************************)
(* impl CanonicalSerialize for Index                                       *)
(***************************************************************************)
(* serialize with the integer written before the tag byte.                *)
serialize_inner_first(self, writer) ==
    BoolSerialize(self.tag = "Input", UsizeSerialize(self.inner, writer))

serialize(self, writer) ==
    LET afterTag ==
            CASE self.tag = "Input" -> BoolSerialize(TRUE, writer)
              [] self.tag = "Aux" -> BoolSerialize(FALSE, writer)
    IN  UsizeSerialize(self.inner, afterTag)

(* SERIALIZED_SIZE without the tag byte.                                    *)
SERIALIZED_SIZE_no_tag == USIZE_SERIALIZED_SIZE

SERIALIZED_SIZE == USIZE_SERIALIZED_SIZE + 1

UNCOMPRESSED_SIZE == SERIALIZED_SIZE

serialized_size(self) == SERIALIZED_SIZE

(***************************************************************************)
(* impl CanonicalDeserialize for Index                                     *)
(***************************************************************************)
(* deserialize with the two variants exchanged.                            *)
deserialize_swapped(reader) ==
    LET is_input == BoolDeserialize(reader)
        inner == UsizeDeserialize(is_input.rest)
    IN  IF ~is_input.ok
        THEN [ok |-> FALSE, val |-> NoIndex, err |-> is_input.err, rest |-> <<>>]
        ELSE IF ~inner.ok
        THEN [ok |-> FALSE, val |-> NoIndex, err |-> inner.err, rest |-> <<>>]
        ELSE [ok |-> TRUE,
              val |-> IF is_input.val THEN Aux(inner.val) ELSE Input(inner.val),
              err |-> "",
              rest |-> inner.rest]

deserialize(reader) ==
    LET is_input == BoolDeserialize(reader)
        inner == UsizeDeserialize(is_input.rest)
    IN  IF ~is_input.ok
        THEN [ok |-> FALSE, val |-> NoIndex, err |-> is_input.err, rest |-> <<>>]
        ELSE IF ~inner.ok
        THEN [ok |-> FALSE, val |-> NoIndex, err |-> inner.err, rest |-> <<>>]
        ELSE [ok |-> TRUE,
              val |-> IF is_input.val THEN Input(inner.val) ELSE Aux(inner.val),
              err |-> "",
              rest |-> inner.rest]

(***************************************************************************)
(* impl Ord for Index, impl PartialOrd for Index                           *)
(***************************************************************************)
Some(x) == [some |-> TRUE, val |-> x]

(* idx1.cmp(idx2) on usize                                                 *)
UsizeCmp(idx1, idx2) ==
    IF idx1 < idx2 THEN "Less" ELSE IF idx1 = idx2 THEN "Equal" ELSE "Greater"

(* cmp that compares the integers whatever the variants are.               *)
cmp_ignores_tag(self, other) == UsizeCmp(self.inner, other.inner)

(* cmp with the Aux/Input arm answering Less like the Input/Aux arm.       *)
cmp_both_less(self, other) ==
    CASE self.tag = "Input" /\ other.tag = "Input" -> UsizeCmp(self.inner, other.inner)
      [] self.tag = "Aux" /\ other.tag = "Aux" -> UsizeCmp(self.inner, other.inner)
      [] self.tag = "Input" /\ other.tag = "Aux" -> "Less"
      [] self.tag = "Aux" /\ other.tag = "Input" -> "Less"

(* cmp with one arm for every Aux receiver, answering Greater.             *)
cmp_aux_always_greater(self, other) ==
    CASE self.tag = "Input" /\ other.tag = "Input" -> UsizeCmp(self.inner, other.inner)
      [] self.tag = "Input" /\ other.tag = "Aux" -> "Less"
      [] OTHER -> "Greater"

cmp(self, other) ==
    CASE self.tag = "Input" /\ other.tag = "Input" -> UsizeCmp(self.inner, other.inner)
      [] self.tag = "Aux" /\ other.tag = "Aux" -> UsizeCmp(self.inner, other.inner)
      [] self.tag = "Input" /\ other.tag = "Aux" -> "Less"
      [] self.tag = "Aux" /\ other.tag = "Input" -> "Greater"

partial_cmp(self, other) == Some(cmp(self, other))

(***************************************************************************)
(* struct Variable(Index), with the derived PartialOrd, Ord, PartialEq:    *)
(* each compares the one field.                                            *)
(***************************************************************************)
new_unchecked(idx) == <<idx>>

get_unchecked(self) == self[1]

VariableCmp(self, other) == cmp(self[1], other[1])

VariablePartialCmp(self, other) == partial_cmp(self[1], other[1])

VariableEq(self, other) == IndexEq(self[1], other[1])

(***************************************************************************)
(* struct LinearCombination<F>(pub SmallVec<F>): a sequence of             *)
(* (Variable, F) pairs.  Term insertion follows the contract of the        *)
(* specification: binary search for the variable, add the coefficient to   *)
(* an existing term, otherwise insert where the order is preserved.        *)
(***************************************************************************)
Coeffs == 0..(FieldP - 1)

FieldAdd(x, y) == (x + y) % FieldP

LCVariables ==
    {new_unchecked(Input(n)) : n \in 0..MaxIdx} \cup {new_unchecked(Aux(n)) : n \in 0..MaxIdx}

zero == <<>>

(* Binary search of the sorted terms lc[lo], ..., lc[hi - 1] for var.      *)
RECURSIVE BinarySearch(_, _, _, _)
BinarySearch(lc, var, lo, hi) ==
    IF lo >= hi
    THEN [found |-> FALSE, at |-> lo]
    ELSE LET mid == (lo + hi) \div 2
             c == VariableCmp(lc[mid][1], var)
         IN  CASE c = "Equal" -> [found |-> TRUE, at |-> mid]
               [] c = "Less" -> BinarySearch(lc, var, mid + 1, hi)
               [] c = "Greater" -> BinarySearch(lc, var, lo, mid)

get_var_loc(lc, var) == BinarySearch(lc, var, 1, Len(lc) + 1)

insert(lc, coeff, var) ==
    LET loc == get_var_loc(lc, var)
    IN  IF loc.found
        THEN [lc EXCEPT ![loc.at] = <<var, FieldAdd(lc[loc.at][2], coeff)>>]
        ELSE SubSeq(lc, 1, loc.at - 1) \o << <<var, coeff>> >> \o SubSeq(lc, loc.at, Len(lc))

(***************************************************************************)
(* trait SNARK and trait CircuitSpecificSetupSNARK.  circuit_specific_setup *)
(* has no body in the trait: an implementation Self consumes some values   *)
(* of the rng and returns a key pair made from the circuit and from them,  *)
(* or an error when the circuit cannot be synthesized.  The rng is the     *)
(* position in its stream.                                                 *)
(***************************************************************************)
Ok(v) == [ok |-> TRUE, val |-> v, err |-> ""]

NoKeys == [pk |-> <<>>, vk |-> <<>>]

Err(e) == [ok |-> FALSE, val |-> NoKeys, err |-> e]

Circuits == [id : 0..MaxCircuit, synthOk : BOOLEAN]

Impls == [draws : 0..MaxDraws, drawsBeforeSynthesis : BOOLEAN]

circuit_specific_setup(Self, circuit, rng) ==
    IF ~circuit.synthOk
    THEN [ret |-> Err("SynthesisError"),
          rng |-> IF Self.drawsBeforeSynthesis THEN rng + Self.draws ELSE rng]
    ELSE [ret |-> Ok([pk |-> <<"pk", circuit.id, rng, Self.draws>>,
                      vk |-> <<"vk", circuit.id, rng, Self.draws>>]),
          rng |-> rng + Self.draws]

(* setup that draws a value from the rng before it forwards.               *)
setup_draws_first(Self, circuit, rng) ==
    LET r == circuit_specific_setup(Self, circuit, rng + 1)
    IN  [ret |-> r.ret, rng |-> r.rng, calls |-> <<[circuit |-> circuit, rng |-> rng + 1]>>]

(* The default body of CircuitSpecificSetupSNARK::setup; calls lists the   *)
(* calls of circuit_specific_setup it makes.                               *)
setup(Self, circuit, rng) ==
    LET r == circuit_specific_setup(Self, circuit, rng)
    IN  [ret |-> r.ret, rng |-> r.rng, calls |-> <<[circuit |-> circuit, rng |-> rng]>>]

(***************************************************************************)
(* State.  writer is the Vec<u8> indices are serialized into and written   *)
(* records each serialize call; reader is the byte slice a deserializer    *)
(* reads from, source what it was opened on, readBack what it returned.    *)
(***************************************************************************)
VARIABLES writer, written, readerOpen, reader, source, readBack

(* The operands of the last comparison and everything it returned.         *)
VARIABLES cmpArgs, cmpOut

(* A linear combination and the terms inserted into it, in order.          *)
VARIABLES terms, log

(* The rng, the arguments of the last setup call, what it returned and the *)
(* calls of circuit_specific_setup it made.                                *)
VARIABLES rngState, setupArgs, setupRet, calls

serVars == <<writer, written, readerOpen, reader, source, readBack>>

ordVars == <<cmpArgs, cmpOut>>

lcVars == <<terms, log>>

setupVars == <<rngState, setupArgs, setupRet, calls>>

vars == <<serVars, ordVars, lcVars, setupVars>>

NoSource == [kind |-> "none", bytes |-> <<>>]

Init ==
    /\ writer = <<>>
    /\ written = <<>>
    /\ readerOpen = FALSE
    /\ reader = <<>>
    /\ source = NoSource
    /\ readBack = <<>>
    /\ cmpArgs = <<>>
    /\ cmpOut = <<>>
    /\ terms = zero
    /\ log = <<>>
    /\ rngState = 0
    /\ setupArgs = <<>>
    /\ setupRet = Err("")
    /\ calls = <<>>

OtherThanSer == <<ordVars, lcVars, setupVars>>

(* idx.serialize(&mut v), with the size idx.serialized_size() reports.     *)
Serialize(idx) ==
    /\ ~readerOpen
    /\ Len(written) < MaxWrites
    /\ writer' = serialize(idx, writer)
    /\ written' = Append(written, [idx |-> idx,
                                   start |-> Len(writer),
                                   end |-> Len(writer'),
                                   size |-> serialized_size(idx),
                                   uncompressed |-> UNCOMPRESSED_SIZE])
    /\ UNCHANGED <<readerOpen, reader, source, readBack>>
    /\ UNCHANGED OtherThanSer

(* &mut &v[..]: a reader over the bytes written so far.                    *)
OpenReader ==
    /\ ~readerOpen
    /\ readerOpen' = TRUE
    /\ reader' = writer
    /\ source' = [kind |-> "vec", bytes |-> writer]
    /\ readBack' = <<>>
    /\ UNCHANGED <<writer, written>>
    /\ UNCHANGED OtherThanSer

(* A reader over bytes that did not come from serialize: any tag byte, an  *)
(* encoded integer, possibly cut short.                                    *)
OpenCrafted(tagByte, n, cut) ==
    /\ ~readerOpen
    /\ readerOpen' = TRUE
    /\ reader' = SubSeq(<<tagByte>> \o LEBytes(n, USIZE_SERIALIZED_SIZE), 1, cut)
    /\ source' = [kind |-> "crafted", bytes |-> reader']
    /\ readBack' = <<>>
    /\ UNCHANGED <<writer, written>>
    /\ UNCHANGED OtherThanSer

(* Index::deserialize(&mut reader)                                         *)
Deserialize ==
    /\ readerOpen
    /\ Len(readBack) <= MaxWrites
    /\ LET r == deserialize(reader)
       IN  /\ readBack' = Append(readBack, [ok |-> r.ok, val |-> r.val, err |-> r.err])
           /\ reader' = r.rest
    /\ UNCHANGED <<writer, written, readerOpen, source>>
    /\ UNCHANGED OtherThanSer

DropReader ==
    /\ readerOpen
    /\ readerOpen' = FALSE
    /\ reader' = <<>>
    /\ source' = NoSource
    /\ readBack' = <<>>
    /\ UNCHANGED <<writer, written>>
    /\ UNCHANGED OtherThanSer

TagBytes == {0, 1, 2}

Cuts == {0, 1, SERIALIZED_SIZE - 1, SERIALIZED_SIZE}

NextSerialize ==
    \/ \E idx \in Index : Serialize(idx)
    \/ OpenReader
    \/ \E tagByte \in TagBytes, n \in IdxValues, cut \in Cuts :
           OpenCrafted(tagByte, n, cut)
    \/ Deserialize
    \/ DropReader

SpecSerialize == Init /\ [][NextSerialize]_vars

(***************************************************************************)
(* Comparisons: a and b as Index values and wrapped in Variables.          *)
(***************************************************************************)
OtherThanOrd == <<serVars, lcVars, setupVars>>

Compare(a, b) ==
    /\ cmpArgs' = <<a, b>>
    /\ cmpOut' = [ord |-> cmp(a, b),
                  rev |-> cmp(b, a),
                  pord |-> partial_cmp(a, b),
                  prev |-> partial_cmp(b, a),
                  eq |-> IndexEq(a, b),
                  vord |-> VariableCmp(new_unchecked(a), new_unchecked(b)),
                  vpord |-> VariablePartialCmp(new_unchecked(a), new_unchecked(b)),
                  veq |-> VariableEq(new_unchecked(a), new_unchecked(b)),
                  back |-> get_unchecked(new_unchecked(a))]
    /\ UNCHANGED OtherThanOrd

NextOrder == \E a \in Index, b \in Index : Compare(a, b)

SpecOrder == Init /\ [][NextOrder]_vars

(***************************************************************************)
(* Term insertion into the linear combination.                             *)
(***************************************************************************)
OtherThanLC == <<serVars, ordVars, setupVars>>

Insert(coeff, var) ==
    /\ Len(log) < MaxInserts
    /\ terms' = insert(terms, coeff, var)
    /\ log' = Append(log, [coeff |-> coeff, var |-> var])
    /\ UNCHANGED OtherThanLC

NextLC == \E coeff \in Coeffs, var \in LCVariables : Insert(coeff, var)

SpecLC == Init /\ [][NextLC]_vars

(***************************************************************************)
(* A call of Self::setup(circuit, &mut rng).                               *)
(***************************************************************************)
OtherThanSetup == <<serVars, ordVars, lcVars>>

Setup(Self, circuit) ==
    /\ rngState < MaxRng
    /\ LET r == setup(Self, circuit, rngState)
       IN  /\ setupRet' = r.ret
           /\ rngState' = r.rng
           /\ calls' = r.calls
    /\ setupArgs' = <<Self, circuit, rngState>>
    /\ UNCHANGED OtherThanSetup

NextSetup == \E Self \in Impls, circuit \in Circuits : Setup(Self, circuit)

SpecSetup == Init /\ [][NextSetup]_vars

(***************************************************************************)
(* Properties of Index serialization.                                      *)
(***************************************************************************)
WrittenBytes(k) == SubSeq(writer, written[k].start + 1, written[k].end)

(* C1: deserializing the bytes serialize produced succeeds and yields an   *)
(* Index equal to the one serialized, variant included: the k-th index     *)
(* read back from the vector is the k-th index written to it.              *)
RoundTrip ==
    (readerOpen /\ source.kind = "vec") =>
        \A k \in 1..Len(readBack) :
            k <= Len(written) =>
                /\ readBack[k].ok
                /\ IndexEq(readBack[k].val, written[k].idx)
                /\ readBack[k].val.tag = written[k].idx.tag
                /\ readBack[k].val.inner = written[k].idx.inner

RoundTripBoth ==
    /\ readerOpen
    /\ source.kind = "vec"
    /\ Len(written) = 2
    /\ Len(readBack) = 2
    /\ written[1].idx = Input(32)
    /\ written[2].idx = Aux(32)
    /\ readBack[1].ok
    /\ readBack[2].ok
    /\ ~IndexEq(readBack[1].val, readBack[2].val)

(* C3: serialized_size() is usize's size plus one for every Index, the     *)
(* uncompressed size is the same number, and serialize writes exactly that *)
(* many bytes.                                                             *)
ConstantSize ==
    \A k \in 1..Len(written) :
        /\ written[k].size = USIZE_SERIALIZED_SIZE + 1
        /\ written[k].uncompressed = written[k].size
        /\ written[k].end - written[k].start = written[k].size
        /\ Len(writer) = Len(written) * written[k].size

ConstantSizeBothTags ==
    /\ Len(written) = 2
    /\ written[1].idx = Input(0)
    /\ written[2].idx = Aux(2147483647)
    /\ written[1].size = written[2].size

(* C4: serialize writes one tag byte (1 for Input, 0 for Aux), then the    *)
(* fixed-width integer, and nothing else; deserialize reads a tag byte,    *)
(* then the integer, and maps tag 1 to Input and tag 0 to Aux.             *)
Encoding ==
    /\ \A k \in 1..Len(written) :
           /\ Len(WrittenBytes(k)) = 1 + USIZE_SERIALIZED_SIZE
           /\ Head(WrittenBytes(k)) = (IF written[k].idx.tag = "Input" THEN 1 ELSE 0)
           /\ Tail(WrittenBytes(k)) = LEBytes(written[k].idx.inner, USIZE_SERIALIZED_SIZE)
    /\ (/\ readerOpen
        /\ Len(readBack) >= 1
        /\ Len(source.bytes) >= 1 + USIZE_SERIALIZED_SIZE
        /\ source.bytes[1] \in {0, 1}) =>
           /\ readBack[1].ok
           /\ readBack[1].val.tag = (IF source.bytes[1] = 1 THEN "Input" ELSE "Aux")
           /\ readBack[1].val.inner =
                  LEValue(SubSeq(source.bytes, 2, 1 + USIZE_SERIALIZED_SIZE))

EncodingBothWays ==
    /\ Len(written) >= 1
    /\ written[1].idx = Aux(256)
    /\ readerOpen
    /\ source.kind = "crafted"
    /\ Len(source.bytes) = SERIALIZED_SIZE
    /\ source.bytes[1] = 1
    /\ Len(readBack) = 1
    /\ readBack[1].ok
    /\ readBack[1].val = Input(255)

(***************************************************************************)
(* Properties of the Index ordering.                                       *)
(***************************************************************************)
Compared == cmpArgs # <<>>

(* C2: cmp orders by variant first and integer second: an Input is Less    *)
(* than an Aux and an Aux Greater than an Input whatever the integers,     *)
(* and two indices of one variant compare as their integers do.            *)
TagThenInteger ==
    Compared =>
        LET a == cmpArgs[1]
            b == cmpArgs[2]
        IN  /\ (a.tag = "Input" /\ b.tag = "Aux") => cmpOut.ord = "Less"
            /\ (a.tag = "Aux" /\ b.tag = "Input") => cmpOut.ord = "Greater"
            /\ (a.tag = b.tag) =>
                   /\ (cmpOut.ord = "Less") = (a.inner < b.inner)
                   /\ (cmpOut.ord = "Equal") = (a.inner = b.inner)
                   /\ (cmpOut.ord = "Greater") = (a.inner > b.inner)

InputBelowSmallerAux ==
    /\ Compared
    /\ cmpArgs[1] = Input(32)
    /\ cmpArgs[2] = Aux(0)
    /\ cmpOut.ord = "Less"

Reverse(o) == CASE o = "Less" -> "Greater" [] o = "Greater" -> "Less" [] OTHER -> o

(* C10: the ordering is total and agrees with the derived equality:        *)
(* exactly one of a < b, a == b, b < a; cmp is Equal exactly when a == b;  *)
(* cmp(b, a) is the reverse of cmp(a, b); partial_cmp is Some(cmp); and    *)
(* Variables compare and equal as the indices they wrap.                   *)
TotalOrder ==
    Compared =>
        LET lt == cmpOut.pord = Some("Less")
            gt == cmpOut.prev = Some("Less")
        IN  /\ (lt /\ ~cmpOut.eq /\ ~gt) \/ (~lt /\ cmpOut.eq /\ ~gt) \/ (~lt /\ ~cmpOut.eq /\ gt)
            /\ (cmpOut.ord = "Equal") = cmpOut.eq
            /\ cmpOut.eq = (cmpArgs[1] = cmpArgs[2])
            /\ cmpOut.rev = Reverse(cmpOut.ord)
            /\ cmpOut.pord = Some(cmpOut.ord)
            /\ cmpOut.vord = cmpOut.ord
            /\ cmpOut.vpord = cmpOut.pord
            /\ cmpOut.veq = cmpOut.eq
            /\ cmpOut.back = cmpArgs[1]

AuxAboveLargerInput ==
    /\ Compared
    /\ cmpArgs[1] = Aux(0)
    /\ cmpArgs[2] = Input(256)
    /\ cmpOut.vord = "Greater"
    /\ cmpOut.rev = "Less"
    /\ ~cmpOut.veq

StrictlyBefore(a, b) ==
    \/ a.tag = "Input" /\ b.tag = "Aux"
    \/ a.tag = b.tag /\ a.inner < b.inner

(* C8: after any sequence of insertions the variables of the stored pairs  *)
(* are strictly increasing in the Index ordering, every Input before every *)
(* Aux, so no two pairs share a variable.                                  *)
Sorted ==
    /\ \A i \in 1..(Len(terms) - 1) :
           StrictlyBefore(get_unchecked(terms[i][1]), get_unchecked(terms[i + 1][1]))
    /\ \A i \in 1..Len(terms) : \A j \in 1..Len(terms) :
           i # j => terms[i][1] # terms[j][1]

SortedOutOfOrderInserts ==
    /\ Len(log) = 3
    /\ log[1].var = new_unchecked(Aux(1))
    /\ log[2].var = new_unchecked(Input(1))
    /\ log[3].var = new_unchecked(Aux(0))
    /\ Len(terms) = 3
    /\ terms[1][1] = new_unchecked(Input(1))
    /\ terms[2][1] = new_unchecked(Aux(0))
    /\ terms[3][1] = new_unchecked(Aux(1))

(***************************************************************************)
(* Properties of the default setup.                                        *)
(***************************************************************************)
(* C6: setup returns exactly what circuit_specific_setup returns for the   *)
(* same circuit and rng, key pair or error; it calls it once, with those   *)
(* arguments, and leaves the rng where that one call left it.              *)
SetupForwards ==
    (setupArgs # <<>>) =>
        LET direct == circuit_specific_setup(setupArgs[1], setupArgs[2], setupArgs[3])
        IN  /\ setupRet = direct.ret
            /\ rngState = direct.rng
            /\ calls = <<[circuit |-> setupArgs[2], rng |-> setupArgs[3]]>>

SetupForwardsError ==
    /\ setupArgs # <<>>
    /\ setupArgs[3] > 0
    /\ ~setupArgs[2].synthOk
    /\ ~setupRet.ok
    /\ setupRet.err = "SynthesisError"
    /\ Len(calls) = 1

Next == NextSerialize \/ NextOrder \/ NextLC \/ NextSetup

Spec == Init /\ [][Next]_vars
====
